---- MODULE Spec2Model ----
(***************************************************************************)
(* Model of src/auth.py: the requires_auth guard and the three stages it   *)
(* composes (get_token_auth_header, verify_decode_jwt, check_permissions). *)
(*                                                                         *)
(* Strings that the code only splits, lowercases and compares are          *)
(* sequences of lexemes (" ", "Bearer", "bearer", "tok"); python dicts are *)
(* functions whose DOMAIN is the set of keys, so `'k' in d` is             *)
(* "k" \in DOMAIN d and an empty dict is falsy.  The network and the       *)
(* cryptography are inputs: `network` is what urlopen + json.loads yield   *)
(* and `content` is what the token string "tok" carries.                   *)
(***************************************************************************)
EXTENDS Naturals, Sequences, FiniteSets

VARIABLES
    auth,               \* request.headers.get('Authorization', None)
    permission,         \* the parameter of requires_auth
    content,            \* what the token string "tok" encodes
    network,            \* what the JWKS endpoint answers
    pc,                 \* position inside wrapper()
    token,              \* wrapper: token
    jwks,               \* verify_decode_jwt: jwks['keys']
    unverified_header,  \* verify_decode_jwt: unverified_header
    rsa_key,            \* verify_decode_jwt: rsa_key
    payload,            \* wrapper: payload
    result,             \* how the invocation ended
    log,                \* the calls made so far, in order
    fetches             \* number of urlopen calls made

vars == <<auth, permission, content, network, pc, token, jwks,
          unverified_header, rsa_key, payload, result, log, fetches>>

----------------------------------------------------------------------------
(* Bounds *)

MaxHeaderLen == 5
MaxKeys == 2
MaxPerms == 2

----------------------------------------------------------------------------
(* Values *)

EmptyDict == [k \in {} |-> ""]

Truthy(d) == DOMAIN d # {}

SeqsUpTo(S, n) == UNION {[1..k -> S] : k \in 0..n}

Whitespace == {" "}

Lexemes == {" ", "Bearer", "bearer", "tok"}

\* str.lower() of one lexeme
LowerLexeme(c) == IF c = "Bearer" THEN "bearer" ELSE c

\* str.lower()
Lower(s) == [i \in DOMAIN s |-> LowerLexeme(s[i])]

RECURSIVE SplitFrom(_, _, _)
SplitFrom(s, cur, acc) ==
    IF s = <<>>
    THEN IF cur = <<>> THEN acc ELSE Append(acc, cur)
    ELSE IF Head(s) \in Whitespace
         THEN SplitFrom(Tail(s), <<>>, IF cur = <<>> THEN acc ELSE Append(acc, cur))
         ELSE SplitFrom(Tail(s), Append(cur, Head(s)), acc)

\* str.split() with no argument: runs of whitespace separate, no empty parts
Split(s) == SplitFrom(s, <<>>, <<>>)

----------------------------------------------------------------------------
(* AuthError and the ways an invocation ends *)

AuthError(error, status_code) == [error |-> error, status_code |-> status_code]

NoError == AuthError([error |-> 0, code |-> "", description |-> ""], 0)

Raise(stage, err) == [kind |-> "AuthError", err |-> err, exc |-> "", stage |-> stage]

\* an exception that is not an AuthError leaves the stage
RaiseOther(stage, exc) == [kind |-> "Exception", err |-> NoError, exc |-> exc, stage |-> stage]

Passed(stage) == [kind |-> "ok", err |-> NoError, exc |-> "", stage |-> stage]

Pending == [kind |-> "none", err |-> NoError, exc |-> "", stage |-> ""]

Returned == [kind |-> "returned", err |-> NoError, exc |-> "", stage |-> "f"]

----------------------------------------------------------------------------
(* get_token_auth_header *)

HeaderMissing ==
    AuthError([error |-> 401, code |-> "authorization_header_missing",
               description |-> "Authorization header is expected."], 401)

HeaderNotBearer ==
    AuthError([error |-> 401, code |-> "invalid_header",
               description |-> "Authorization header must start with \"Bearer\"."], 401)

HeaderNoToken ==
    AuthError([error |-> 401, code |-> "invalid_header",
               description |-> "Token not found."], 401)

HeaderTooLong ==
    AuthError([error |-> 401, code |-> "invalid_header",
               description |-> "Authorization header must be bearer token."], 401)

\* get_token_auth_header without the raise of lines 34-39
get_token_auth_header_no_missing_check(a) ==
    LET parts == Split(a.value)
        st == "get_token_auth_header"
        fail(r) == [outcome |-> r, token |-> <<>>]
    IN  IF Len(parts) = 0
        THEN [outcome |-> Passed(st), token |-> <<>>]
        ELSE IF Lower(parts[1]) # <<"bearer">>
        THEN fail(Raise(st, HeaderNotBearer))
        ELSE IF Len(parts) = 1
        THEN fail(Raise(st, HeaderNoToken))
        ELSE IF Len(parts) > 2
        THEN fail(Raise(st, HeaderTooLong))
        ELSE [outcome |-> Passed(st), token |-> parts[2]]

\* the outcome of get_token_auth_header on a header a; `token` is its return value
get_token_auth_header(a) ==
    LET parts == Split(a.value)
        st == "get_token_auth_header"
        fail(r) == [outcome |-> r, token |-> <<>>]
    IN  IF ~a.present \/ a.value = <<>>
        THEN fail(Raise(st, HeaderMissing))
        ELSE IF Len(parts) = 0
        THEN fail(RaiseOther(st, "IndexError"))
        ELSE IF Lower(parts[1]) # <<"bearer">>
        THEN fail(Raise(st, HeaderNotBearer))
        ELSE IF Len(parts) = 1
        THEN fail(Raise(st, HeaderNoToken))
        ELSE IF Len(parts) > 2
        THEN fail(Raise(st, HeaderTooLong))
        ELSE [outcome |-> Passed(st), token |-> parts[2]]

----------------------------------------------------------------------------
(* check_permissions *)

PermissionsMissing ==
    AuthError([error |-> 400, code |-> "invalid_claims",
               description |-> "Permissions not included in JWT."], 400)

PermissionNotFound ==
    AuthError([error |-> 403, code |-> "unauthorized",
               description |-> "Permission not found."], 403)

\* x in a list
InList(x, l) == \E i \in DOMAIN l : l[i] = x

\* check_permissions letting the empty permission through
check_permissions_empty_bypass(perm, pl) ==
    IF "permissions" \notin DOMAIN pl
    THEN Raise("check_permissions", PermissionsMissing)
    ELSE IF perm # "" /\ ~InList(perm, pl["permissions"])
    THEN Raise("check_permissions", PermissionNotFound)
    ELSE Passed("check_permissions")

\* check_permissions raising its 403 body under status 401
check_permissions_wrong_status(perm, pl) ==
    IF "permissions" \notin DOMAIN pl
    THEN Raise("check_permissions", PermissionsMissing)
    ELSE IF ~InList(perm, pl["permissions"])
    THEN Raise("check_permissions", AuthError(PermissionNotFound.error, 401))
    ELSE Passed("check_permissions")

\* the outcome of check_permissions(perm, pl)
check_permissions(perm, pl) ==
    IF "permissions" \notin DOMAIN pl
    THEN Raise("check_permissions", PermissionsMissing)
    ELSE IF ~InList(perm, pl["permissions"])
    THEN Raise("check_permissions", PermissionNotFound)
    ELSE Passed("check_permissions")

----------------------------------------------------------------------------
(* verify_decode_jwt *)

ALGORITHMS == {"RS256"}

KidMissing ==
    AuthError([error |-> 401, code |-> "invalid_header",
               description |-> "Authorization malformed."], 401)

TokenExpired ==
    AuthError([error |-> 401, code |-> "token_expired",
               description |-> "Token expired."], 401)

IncorrectClaims ==
    AuthError([error |-> 401, code |-> "invalid_claims",
               description |-> "Incorrect claims. Please, check the audience and issuer."], 401)

UnableToParse ==
    AuthError([error |-> 400, code |-> "invalid_header",
               description |-> "Unable to parse authentication token."], 400)

KeyNotFound ==
    AuthError([error |-> 400, code |-> "invalid_header",
               description |-> "Unable to find the appropriate key."], 400)

\* a string that is not a JWT: its first segment does not decode to a header
NotAJwt ==
    [hdr_ok |-> FALSE, header |-> EmptyDict, signer |-> "", nbf_ok |-> FALSE,
     expired |-> FALSE, aud_ok |-> FALSE, claims |-> EmptyDict]

\* what the string t encodes; only the lexeme "tok" stands for a JWT
ContentOf(t) == IF t = <<"tok">> THEN content ELSE NotAJwt

\* the dict built at lines 115-121
Project(key) ==
    [kty |-> key.kty, kid |-> key.kid, use |-> key.use, n |-> key.n, e |-> key.e]

RECURSIVE ScanKeys_break(_, _, _)
\* the loop leaving at the first match
ScanKeys_break(keys, kid, rsa) ==
    IF keys = <<>>
    THEN rsa
    ELSE IF Head(keys).kid = kid THEN Project(Head(keys))
         ELSE ScanKeys_break(Tail(keys), kid, rsa)

RECURSIVE ScanKeys_any_kid(_, _, _)
\* the loop without the comparison of line 114
ScanKeys_any_kid(keys, kid, rsa) ==
    IF keys = <<>>
    THEN rsa
    ELSE ScanKeys_any_kid(Tail(keys), kid, Project(Head(keys)))

RECURSIVE ScanKeys(_, _, _)
\* the loop of lines 113-121 over the remaining keys, rsa being rsa_key so far
ScanKeys(keys, kid, rsa) ==
    IF keys = <<>>
    THEN rsa
    ELSE ScanKeys(Tail(keys), kid,
                  IF Head(keys).kid = kid THEN Project(Head(keys)) ELSE rsa)

\* jwt.decode(token, rsa_key, algorithms, audience, issuer) of python-jose:
\* the signature is verified first, then iat/nbf, exp, aud and iss in that order
JwtDecode(c, key) ==
    IF ~c.hdr_ok \/ c.header.alg \notin ALGORITHMS \/ key.n # c.signer
    THEN "JWTError"
    ELSE IF ~c.nbf_ok THEN "JWTClaimsError"
    ELSE IF c.expired THEN "ExpiredSignatureError"
    ELSE IF ~c.aud_ok THEN "JWTClaimsError"
    ELSE "payload"

\* lines 125-161 with `except Exception` ahead of the two specific handlers
DecodeOutcome_catch_all_first(c, key) ==
    IF Truthy(key)
    THEN IF JwtDecode(c, key) = "payload" THEN Passed("jwt.decode")
         ELSE Raise("jwt.decode", UnableToParse)
    ELSE Raise("key_scan", KeyNotFound)

\* lines 125-161: the outcome once the key set has been scanned
DecodeOutcome(c, key) ==
    LET st == "jwt.decode"
        r == JwtDecode(c, key)
    IN  IF Truthy(key)
        THEN IF r = "payload" THEN Passed(st)
             ELSE IF r = "ExpiredSignatureError" THEN Raise(st, TokenExpired)
             ELSE IF r = "JWTClaimsError" THEN Raise(st, IncorrectClaims)
             ELSE Raise(st, UnableToParse)
        ELSE Raise("key_scan", KeyNotFound)

\* lines 104-111 without the check of line 106
HeaderOutcome_no_kid_check(c) ==
    IF ~c.hdr_ok
    THEN RaiseOther("get_unverified_header", "JWTError")
    ELSE Passed("get_unverified_header")

\* lines 104-111: the outcome of reading the token's header
HeaderOutcome(c) ==
    IF ~c.hdr_ok
    THEN RaiseOther("get_unverified_header", "JWTError")
    ELSE IF "kid" \notin DOMAIN c.header
    THEN Raise("get_unverified_header", KidMissing)
    ELSE Passed("get_unverified_header")

----------------------------------------------------------------------------
(* wrapper(): one action per call it makes *)

Finish(r) == /\ result' = r
             /\ pc' = "done"

\* line 173
GetTokenAuthHeader ==
    /\ pc = "start"
    /\ LET r == get_token_auth_header(auth)
       IN  /\ log' = Append(log, "get_token_auth_header")
           /\ IF r.outcome.kind = "ok"
              THEN /\ token' = r.token
                   /\ pc' = "urlopen"
                   /\ UNCHANGED result
              ELSE /\ Finish(r.outcome)
                   /\ UNCHANGED token
    /\ UNCHANGED <<auth, permission, content, network, jwks, unverified_header,
                   rsa_key, payload, fetches>>

\* lines 102-103
FetchJwks ==
    /\ pc = "urlopen"
    /\ log' = Append(log, "urlopen")
    /\ fetches' = fetches + 1
    /\ IF network.ok
       THEN /\ jwks' = network.keys
            /\ pc' = "get_unverified_header"
            /\ UNCHANGED result
       ELSE /\ Finish(RaiseOther("urlopen", "URLError"))
            /\ UNCHANGED jwks
    /\ UNCHANGED <<auth, permission, content, network, token, unverified_header,
                   rsa_key, payload>>

\* lines 104-111
GetUnverifiedHeader ==
    /\ pc = "get_unverified_header"
    /\ log' = Append(log, "get_unverified_header")
    /\ LET c == ContentOf(token)
           r == HeaderOutcome(c)
       IN  /\ unverified_header' = IF c.hdr_ok THEN c.header ELSE unverified_header
           /\ IF r.kind = "ok"
              THEN pc' = "key_scan" /\ UNCHANGED result
              ELSE Finish(r)
    /\ UNCHANGED <<auth, permission, content, network, token, jwks, rsa_key,
                   payload, fetches>>

\* lines 113-121
FindKey ==
    /\ pc = "key_scan"
    /\ log' = Append(log, "key_scan")
    /\ IF "kid" \notin DOMAIN unverified_header /\ jwks # <<>>
       THEN /\ Finish(RaiseOther("key_scan", "KeyError"))
            /\ UNCHANGED rsa_key
       ELSE /\ rsa_key' = IF jwks = <<>> THEN EmptyDict
                          ELSE ScanKeys(jwks, unverified_header["kid"], EmptyDict)
            /\ pc' = "jwt.decode"
            /\ UNCHANGED result
    /\ UNCHANGED <<auth, permission, content, network, token, jwks,
                   unverified_header, payload, fetches>>

\* lines 125-161
Decode ==
    /\ pc = "jwt.decode"
    /\ LET c == ContentOf(token)
           r == DecodeOutcome(c, rsa_key)
       IN  /\ log' = IF Truthy(rsa_key) THEN Append(log, "jwt.decode") ELSE log
           /\ IF r.kind = "ok"
              THEN /\ payload' = c.claims
                   /\ pc' = "check_permissions"
                   /\ UNCHANGED result
              ELSE /\ Finish(r)
                   /\ UNCHANGED payload
    /\ UNCHANGED <<auth, permission, content, network, token, jwks,
                   unverified_header, rsa_key, fetches>>

\* line 175
CheckPermissions ==
    /\ pc = "check_permissions"
    /\ log' = Append(log, "check_permissions")
    /\ LET r == check_permissions(permission, payload)
       IN  IF r.kind = "ok"
           THEN pc' = "f" /\ UNCHANGED result
           ELSE Finish(r)
    /\ UNCHANGED <<auth, permission, content, network, token, jwks,
                   unverified_header, rsa_key, payload, fetches>>

\* line 176
CallWrapped ==
    /\ pc = "f"
    /\ log' = Append(log, "f")
    /\ Finish(Returned)
    /\ UNCHANGED <<auth, permission, content, network, token, jwks,
                   unverified_header, rsa_key, payload, fetches>>

Next ==
    \/ GetTokenAuthHeader
    \/ FetchJwks
    \/ GetUnverifiedHeader
    \/ FindKey
    \/ Decode
    \/ CheckPermissions
    \/ CallWrapped

----------------------------------------------------------------------------
(* Inputs *)

Headers ==
    {[present |-> FALSE, value |-> <<>>]} \cup
    {[present |-> TRUE, value |-> v] : v \in SeqsUpTo(Lexemes, MaxHeaderLen)}

Present(v) == [present |-> TRUE, value |-> v]

\* one header per way get_token_auth_header can end
GuardHeaders ==
    {[present |-> FALSE, value |-> <<>>],
     Present(<<>>), Present(<<" ">>), Present(<<"tok", " ", "tok">>),
     Present(<<"Bearer">>), Present(<<"bearer", " ", "tok", " ", "tok">>),
     Present(<<"Bearer", " ", "tok">>), Present(<<"bearer", " ", "tok", "tok">>)}

GoodHeader == Present(<<"Bearer", " ", "tok">>)

Permissions == {"", "get:students", "post:students"}

Kids == {"k1", "k2"}

Moduli == {"n1", "n2"}

KeyRecords ==
    {[kty |-> "RSA", kid |-> k, use |-> "sig", n |-> n, e |-> "AQAB", alg |-> "RS256"] :
        k \in Kids, n \in Moduli}

Networks ==
    {[ok |-> FALSE, keys |-> <<>>]} \cup
    {[ok |-> TRUE, keys |-> ks] : ks \in SeqsUpTo(KeyRecords, MaxKeys)}

GoodNetwork == [ok |-> TRUE, keys |-> <<CHOOSE r \in KeyRecords : r.kid = "k1" /\ r.n = "n1">>]

TokenHeaders ==
    {[alg |-> a] : a \in {"RS256", "HS256"}} \cup
    {[alg |-> a, kid |-> k] : a \in {"RS256", "HS256"}, k \in Kids}

ClaimSets ==
    {[sub |-> <<>>]} \cup
    {[sub |-> <<>>, permissions |-> ps] : ps \in SeqsUpTo(Permissions, MaxPerms)}

Jwts(claimSets) ==
    {[hdr_ok |-> TRUE, header |-> h, signer |-> s, nbf_ok |-> nb, expired |-> ex,
      aud_ok |-> au, claims |-> cl] :
        h \in TokenHeaders, s \in Moduli, nb \in BOOLEAN, ex \in BOOLEAN,
        au \in BOOLEAN, cl \in claimSets}

GoodJwt(cl) ==
    [hdr_ok |-> TRUE, header |-> [alg |-> "RS256", kid |-> "k1"], signer |-> "n1",
     nbf_ok |-> TRUE, expired |-> FALSE, aud_ok |-> TRUE, claims |-> cl]

InitOf(H, P, C, N) ==
    /\ auth \in H
    /\ permission \in P
    /\ content \in C
    /\ network \in N
    /\ pc = "start"
    /\ token = <<>>
    /\ jwks = <<>>
    /\ unverified_header = EmptyDict
    /\ rsa_key = EmptyDict
    /\ payload = EmptyDict
    /\ result = Pending
    /\ log = <<>>
    /\ fetches = 0

\* the guard on every kind of request
Init ==
    InitOf(GuardHeaders, {"", "get:students"},
           Jwts({[sub |-> <<>>], [sub |-> <<>>, permissions |-> <<"get:students">>]}),
           Networks)

Spec == Init /\ [][Next]_vars

\* get_token_auth_header on every header, the rest of the request being good
InitExtract ==
    InitOf(Headers, {"get:students"},
           {GoodJwt([sub |-> <<>>, permissions |-> <<"get:students">>])}, {GoodNetwork})

SpecExtract == InitExtract /\ [][Next]_vars

\* check_permissions on every permission and every claims mapping
InitPermissions ==
    InitOf({GoodHeader}, Permissions, {GoodJwt(cl) : cl \in ClaimSets}, {GoodNetwork})

SpecPermissions == InitPermissions /\ [][Next]_vars

----------------------------------------------------------------------------
(* Properties *)

Failed == result.kind \in {"AuthError", "Exception"}

Elements(l) == {l[i] : i \in DOMAIN l}

IsPrefix(s, t) == Len(s) <= Len(t) /\ \A i \in DOMAIN s : s[i] = t[i]

\* get_token_auth_header has returned a token, so verify_decode_jwt was entered
Extracted == pc # "start" /\ get_token_auth_header(auth).outcome.kind = "ok"

\* the positions of the records of the served key set that carry the token's kid
Matching == {i \in DOMAIN network.keys : network.keys[i].kid = ContentOf(token).header["kid"]}

HasKid == ContentOf(token).hdr_ok /\ "kid" \in DOMAIN ContentOf(token).header

Scanned == InList("key_scan", log) /\ result.stage # "key_scan"

StageOrder ==
    <<"get_token_auth_header", "urlopen", "get_unverified_header", "key_scan",
      "jwt.decode", "check_permissions", "f">>

\* C1: the calls of an invocation are a prefix of extraction, fetch, header
\* read, key scan, decode, permission check, wrapped operation; a failure ends
\* the invocation at the call that raised it; without an Authorization header
\* nothing is fetched; the wrapped operation runs only after all the others
\* have run and none has failed.
C1_StagesInOrder ==
    /\ IsPrefix(log, StageOrder)
    /\ fetches = Cardinality({i \in DOMAIN log : log[i] = "urlopen"})
    /\ Failed => pc = "done" /\ log # <<>> /\ log[Len(log)] = result.stage
    /\ ~auth.present => fetches = 0
    /\ InList("f", log) => log = StageOrder /\ result = Returned

C1_Witness == pc = "done" /\ result = Returned /\ log = StageOrder /\ fetches = 1

\* C2: an invocation never ends in an exception that is not an AuthError.
C2_OnlyAuthErrors == Failed => result.kind = "AuthError"

\* C3: for a header that is present, extraction fails with invalid_header/401
\* when the split has not exactly two parts or the first part lowercased is
\* not "bearer", and otherwise returns the second part.
C3_ExtractContract ==
    (auth.present /\ pc # "start") =>
        LET parts == Split(auth.value)
        IN  IF Len(parts) # 2 \/ Lower(parts[1]) # <<"bearer">>
            THEN /\ result.kind = "AuthError"
                 /\ result.stage = "get_token_auth_header"
                 /\ result.err.error.code = "invalid_header"
                 /\ result.err.status_code = 401
            ELSE /\ token = parts[2]
                 /\ result.stage # "get_token_auth_header"

\* C4: with the key set served, a token that does not parse (its header cannot
\* be decoded) or that fails verification against the resolved key for its
\* algorithm or its signature fails with 400 invalid_header "Unable to parse
\* authentication token.".
C4_ParseFailuresAre400 ==
    LET c == ContentOf(token)
    IN  (/\ pc = "done"
         /\ Extracted
         /\ network.ok
         /\ \/ ~c.hdr_ok
            \/ /\ HasKid
               /\ Truthy(rsa_key)
               /\ (c.header.alg \notin ALGORITHMS \/ rsa_key.n # c.signer))
        => result.kind = "AuthError" /\ result.err = UnableToParse

\* C5 as claimed: with the key set served, an expired token always ends in
\* token_expired/401.
C5_ExpiredAlwaysTokenExpired ==
    (pc = "done" /\ Extracted /\ network.ok /\ ContentOf(token).hdr_ok
        /\ ContentOf(token).expired)
        => result.kind = "AuthError" /\ result.err = TokenExpired

\* C5: an expired token that reaches jwt.decode with a resolved key under which
\* its signature verifies, with an allowed algorithm and valid iat/nbf, ends
\* in token_expired/401, whatever its audience and issuer.
C5_ExpiredWhenVerified ==
    LET c == ContentOf(token)
    IN  (/\ pc = "done"
         /\ InList("jwt.decode", log)
         /\ c.expired
         /\ c.nbf_ok
         /\ c.header.alg \in ALGORITHMS
         /\ rsa_key.n = c.signer)
        => result = Raise("jwt.decode", TokenExpired)

C5_Witness ==
    /\ pc = "done"
    /\ InList("jwt.decode", log)
    /\ ContentOf(token).expired
    /\ ~ContentOf(token).aud_ok
    /\ result.err = TokenExpired

\* C6 as claimed: a token whose header has no kid fails with 401
\* invalid_header and the key set is never fetched.
C6_KidCheckBeforeFetch ==
    (Extracted /\ ContentOf(token).hdr_ok /\ ~HasKid)
        => fetches = 0 /\ (pc = "done" => result.err = KidMissing)

\* C6: for a token whose header has no kid the key set is fetched first and is
\* never scanned: once the fetch has succeeded the invocation ends in 401
\* invalid_header "Authorization malformed." whatever records were served, and
\* when the fetch fails it ends at the fetch.
C6_KidCheckBeforeScan ==
    (pc = "done" /\ Extracted /\ ContentOf(token).hdr_ok /\ ~HasKid)
        => /\ fetches = 1
           /\ ~InList("key_scan", log)
           /\ rsa_key = EmptyDict
           /\ result = IF network.ok
                       THEN Raise("get_unverified_header", KidMissing)
                       ELSE RaiseOther("urlopen", "URLError")

C6_Witness ==
    /\ pc = "done"
    /\ ContentOf(token).hdr_ok /\ ~HasKid
    /\ Len(jwks) = MaxKeys
    /\ result.err = KidMissing
    /\ log = <<"get_token_auth_header", "urlopen", "get_unverified_header">>

\* C7: a token whose kid matches no record of the served key set ends in 400
\* invalid_header "Unable to find the appropriate key." and jwt.decode is not
\* called.
C7_UnknownKidIs400 ==
    (pc = "done" /\ Extracted /\ network.ok /\ HasKid /\ Matching = {})
        => /\ result = Raise("key_scan", KeyNotFound)
           /\ ~InList("jwt.decode", log)

C7_Witness ==
    /\ pc = "done" /\ Extracted /\ network.ok /\ HasKid /\ Matching = {}
    /\ Len(network.keys) = MaxKeys
    /\ result.err = KeyNotFound

\* C8: check_permissions fails with 400 invalid_claims when the claims have no
\* permissions entry, whatever the required permission; otherwise it fails
\* with 403 unauthorized exactly when the required permission, the empty one
\* included, is not an element of the permissions, and passes exactly when it
\* is.
C8_PermissionCheck ==
    InList("check_permissions", log) =>
        IF "permissions" \notin DOMAIN payload
        THEN result = Raise("check_permissions", PermissionsMissing)
        ELSE IF permission \in Elements(payload["permissions"])
        THEN ~Failed /\ pc \in {"f", "done"}
        ELSE result = Raise("check_permissions", PermissionNotFound)

C8_Witness ==
    /\ pc = "done"
    /\ permission = ""
    /\ "permissions" \in DOMAIN payload
    /\ payload["permissions"] # <<>>
    /\ result.err = PermissionNotFound

\* C9 as claimed: the key used is the first record of the key set carrying the
\* token's kid, projected to kty, kid, use, n and e.
C9_FirstMatchUsed ==
    (Scanned /\ Matching # {})
        => rsa_key = Project(network.keys[CHOOSE i \in Matching : \A j \in Matching : i <= j])

\* C9: the key used is the last record of the key set carrying the token's
\* kid, projected to kty, kid, use, n and e.
C9_LastMatchUsed ==
    (Scanned /\ Matching # {})
        => rsa_key = Project(network.keys[CHOOSE i \in Matching : \A j \in Matching : i >= j])

C9_Witness ==
    /\ Scanned
    /\ Cardinality(Matching) = 2
    /\ network.keys[1].n # network.keys[2].n
    /\ rsa_key = Project(network.keys[2])
    /\ DOMAIN rsa_key = {"kty", "kid", "use", "n", "e"}

ErrorKinds ==
    {<<"authorization_header_missing", 401>>, <<"invalid_header", 401>>,
     <<"invalid_header", 400>>, <<"invalid_claims", 400>>, <<"invalid_claims", 401>>,
     <<"token_expired", 401>>, <<"unauthorized", 403>>}

\* C10: an AuthError carries a (code, status) pair of the closed set and its
\* status_code equals the 'error' number of its body.
C10_ClosedErrorSet ==
    result.kind = "AuthError" =>
        /\ <<result.err.error.code, result.err.status_code>> \in ErrorKinds
        /\ result.err.status_code = result.err.error.error

C10_Witness ==
    /\ pc = "done"
    /\ result.kind = "AuthError"
    /\ result.err.error.code = "unauthorized"
    /\ result.err.status_code = 403

====
